---- MODULE Spec2Model ----
(***************************************************************************)
(* video2x/decoder.py: class VideoDecoder(threading.Thread).                *)
(*                                                                         *)
(* The constructor launches an external decode process whose standard      *)
(* output is a pipe; run() reads fixed-size raw frames from that pipe,      *)
(* pairs each frame with its predecessor and puts (frame_index, pair,       *)
(* processing_settings) on a shared queue; stop() clears the running flag.  *)
(*                                                                         *)
(* Threads of control in the model: the owner (constructor, start(),        *)
(* stop()), the decoder thread (run()), the external process (writes to     *)
(* the pipe, then exits) and a consumer of the shared queue.                *)
(***************************************************************************)
EXTENDS Integers, Sequences, FiniteSets, TLC

(***************************************************************************)
(* Bounds of the model.                                                    *)
(***************************************************************************)
\* streams hold 0..MaxFrames full frames
MaxFrames == 3
\* input_width and input_height range over 1..MaxDim
MaxDim == 2
\* bytes the operating system buffers in the pipe between process and reader
PipeCap == 4
\* the shared queue's maxsize ranges over 0..MaxQueue (0: unbounded)
MaxQueue == 2

\* Python's None, for values that are otherwise strings, records or numbers
None == "None"
\* Python's None, for values that are otherwise level names
NoLevel == <<"None">>

Min(a, b) == IF a < b THEN a ELSE b

(***************************************************************************)
(* Log levels.  A level name is a sequence of characters, so that          *)
(* str.lower() is modelled by what it does.                                *)
(***************************************************************************)
UpperChars == <<"A","B","C","D","E","F","G","H","I","J","K","L","M",
                "N","O","P","Q","R","S","T","U","V","W","X","Y","Z">>
LowerChars == <<"a","b","c","d","e","f","g","h","i","j","k","l","m",
                "n","o","p","q","r","s","t","u","v","w","x","y","z">>

LowerChar(c) ==
    IF \E i \in DOMAIN UpperChars : UpperChars[i] = c
    THEN LowerChars[CHOOSE i \in DOMAIN UpperChars : UpperChars[i] = c]
    ELSE c

\* str.lower()
Lower(s) == [i \in DOMAIN s |-> LowerChar(s[i])]

L_trace    == <<"t","r","a","c","e">>
L_debug    == <<"d","e","b","u","g">>
L_info     == <<"i","n","f","o">>
L_success  == <<"s","u","c","c","e","s","s">>
L_warning  == <<"w","a","r","n","i","n","g">>
L_error    == <<"e","r","r","o","r">>
L_critical == <<"c","r","i","t","i","c","a","l">>
L_fatal    == <<"f","a","t","a","l">>

\* the keys of the dict LOGURU_FFMPEG_LOGLEVELS
LevelKeys == {L_trace, L_debug, L_info, L_success, L_warning, L_error, L_critical}

\* the dict LOGURU_FFMPEG_LOGLEVELS, key by key
LOGURU_FFMPEG_LOGLEVELS(k) ==
    CASE k = L_trace    -> L_trace
      [] k = L_debug    -> L_debug
      [] k = L_info     -> L_info
      [] k = L_success  -> L_info
      [] k = L_warning  -> L_warning
      [] k = L_error    -> L_error
      [] k = L_critical -> L_fatal

\* dict.get(key) with no default: the value, or None for a missing key
DictGet(k) == IF k \in LevelKeys THEN LOGURU_FFMPEG_LOGLEVELS(k) ELSE NoLevel

\* os.environ.get("LOGURU_LEVEL", "INFO"): env is NoLevel when the variable is unset
EnvironGet(env) == IF env = NoLevel THEN <<"I","N","F","O">> ELSE env

\* the value passed after "-loglevel"
LogLevelArg(env) == DictGet(Lower(EnvironGet(env)))

\* values of the environment variable LOGURU_LEVEL the model draws from
HostLevels ==
    { NoLevel,
      <<"T","R","A","C","E">>, <<"D","E","B","U","G">>, <<"I","N","F","O">>,
      <<"S","U","C","C","E","S","S">>, <<"W","A","R","N","I","N","G">>,
      <<"E","R","R","O","R">>, <<"C","R","I","T","I","C","A","L">>,
      L_debug, <<"I","n","f","o">>,
      <<"W","A","R","N">>, <<"V","E","R","B","O","S","E">>, <<>> }

(***************************************************************************)
(* Frames.  A buffer is the run of stream bytes [start, start+len) a read   *)
(* returned; an image keeps the buffer it was built from and its size.      *)
(***************************************************************************)
\* the number of bytes run() asks of each read: 3 * input_width * input_height
FrameSize(w, h) == 3 * w * h

\* previous_image = None
NoImage == [size |-> <<0, 0>>, data |-> [start |-> 0, len |-> 0]]

\* mutant: frombytes accepts a buffer of any length
FrombytesNeverRaises(w, h, buf) == FALSE

\* whether Image.frombytes("RGB", (w, h), buffer) raises ValueError
\* ("not enough image data"): the RGB raw decoder needs w * h * 3 bytes
FrombytesRaises(w, h, buf) == buf.len < w * h * 3

\* the image Image.frombytes("RGB", (w, h), buffer) returns
Frombytes(w, h, buf) == [size |-> <<w, h>>, data |-> buf]

\* mutant: the test for an empty buffer is missing
NeverDepleted(buf) == FALSE

\* len(buffer) == 0: source depleted
IsDepleted(buf) == buf.len = 0

\* mutant: the pair is built as (image, previous_image)
WorkItemSwapped(index, prev, cur, settings) ==
    [index |-> index, pair |-> <<cur, prev>>, settings |-> settings]

\* mutant: frame_index is incremented before the item is built
WorkItemIndexAhead(index, prev, cur, settings) ==
    [index |-> index + 1, pair |-> <<prev, cur>>, settings |-> settings]

\* the work item run() puts on the queue
WorkItem(index, prev, cur, settings) ==
    [index |-> index, pair |-> <<prev, cur>>, settings |-> settings]

\* the except clauses of run(): the value of self.exception after exc was
\* raised in the loop body.  ValueError is logged only; any other Exception
\* is stored.
Captured(exc, cur) == IF exc = "ValueError" THEN cur ELSE exc

\* mutant: put never blocks (put_nowait on a queue that ignores its bound)
NeverFull(q, maxsize) == FALSE

\* queue.Queue.put blocks while 0 < maxsize <= qsize()
Full(q, maxsize) == maxsize > 0 /\ Len(q) >= maxsize

\* subprocess.Popen raises when the executable cannot be run, and when an
\* element of the argument list is None
Popen(ok, level) ==
    IF ~ok THEN "FileNotFoundError"
    ELSE IF level = NoLevel THEN "TypeError"
    ELSE None

\* mutant: __init__ swallows the exception of Popen and returns the instance
ConstructedAlways(outcome) == TRUE

\* whether the constructor returned an instance to its caller
Constructed(outcome) == outcome = None

(***************************************************************************)
(* State.                                                                  *)
(***************************************************************************)
VARIABLES
    \* inputs: the environment and the constructor's arguments
    env_level,            \* LOGURU_LEVEL in os.environ (NoLevel: unset)
    binary_ok,            \* whether the decode executable can be launched
    input_width,
    input_height,
    processing_settings,
    maxsize,              \* processing_queue.maxsize
    \* the owner
    ctor,                 \* "pending", "ok", or the exception __init__ raised
    loglevel,             \* the -loglevel argument built by __init__
    stop_req,             \* "none", "early" (before start()), "live", "late"
    \* the external process and its output pipe
    decoder,              \* "none", "running", "exited", "reaped"
    proc_left,            \* bytes the process has still to write
    pipe,                 \* bytes in the pipe
    \* the decoder thread
    pc,
    running,
    exception,
    frame_index,
    previous_image,
    buffer,
    image,
    offset,               \* bytes run() has taken from the pipe
    exit_via,             \* "none", "depleted", "stopped", "failed"
    raised,               \* the exception raised in the loop body, if any
    \* the shared queue and its consumer
    processing_queue,
    enqueued,             \* every item put, in order
    dequeued,             \* every item the consumer got, in order
    \* history
    reads,                \* the length of every buffer a read returned
    reads_after_stop,     \* reads begun after a live stop() returned
    puts_after_stop       \* puts completed after a live stop() returned

inputs == <<env_level, binary_ok, input_width, input_height,
            processing_settings, maxsize>>
owner == <<ctor, loglevel>>
process == <<decoder, proc_left, pipe>>
locals == <<frame_index, previous_image, buffer, image, offset>>
queue == <<processing_queue, enqueued, dequeued>>
history == <<reads, reads_after_stop, puts_after_stop>>

vars == <<inputs, owner, stop_req, process, pc, running, exception, locals,
          exit_via, raised, queue, history>>

\* the size of one frame of this instance
frame_size == FrameSize(input_width, input_height)

\* the trailing bytes of a stream: none, one, or one short of a frame
Tails(w, h) == {0, 1, FrameSize(w, h) - 1}

\* stream length, geometry and queue bound vary under the default log level
StreamInputs ==
    [level : {NoLevel}, ok : {TRUE}, w : 1..MaxDim, h : 1..MaxDim,
     frames : 0..MaxFrames, tail : UNION {Tails(w, h) : w, h \in 1..MaxDim},
     settings : {"interpolate"}, maxsize : 0..MaxQueue]

\* log level and launchability vary over one short stream
LaunchInputs ==
    [level : HostLevels, ok : BOOLEAN, w : {1}, h : {1},
     frames : {2}, tail : {0, 1},
     settings : {"upscale"}, maxsize : {0, 1}]

Inputs == {i \in StreamInputs \cup LaunchInputs : i.tail \in Tails(i.w, i.h)}

Init ==
    \E i \in Inputs :
        /\ env_level = i.level
        /\ binary_ok = i.ok
        /\ input_width = i.w
        /\ input_height = i.h
        /\ processing_settings = i.settings
        /\ maxsize = i.maxsize
        /\ proc_left = i.frames * FrameSize(i.w, i.h) + i.tail
        /\ ctor = "pending"
        /\ loglevel = NoLevel
        /\ stop_req = "none"
        /\ decoder = "none"
        /\ pipe = 0
        /\ pc = "unstarted"
        /\ running = FALSE
        /\ exception = None
        /\ frame_index = 0
        /\ previous_image = NoImage
        /\ buffer = [start |-> 0, len |-> 0]
        /\ image = NoImage
        /\ offset = 0
        /\ exit_via = "none"
        /\ raised = None
        /\ processing_queue = <<>>
        /\ enqueued = <<>>
        /\ dequeued = <<>>
        /\ reads = <<>>
        /\ reads_after_stop = 0
        /\ puts_after_stop = 0

\* the bytes of the whole stream, wherever they are now
stream_len == offset + pipe + proc_left

(***************************************************************************)
(* The owner.                                                              *)
(***************************************************************************)
\* VideoDecoder(...): __init__ builds the command line and launches the
\* process; an exception of Popen leaves the caller without an instance
Construct ==
    /\ ctor = "pending"
    /\ LET level == LogLevelArg(env_level)
           outcome == Popen(binary_ok, level)
       IN /\ loglevel' = level
          /\ IF Constructed(outcome)
             THEN /\ ctor' = "ok"
                  /\ decoder' = "running"
             ELSE /\ ctor' = outcome
                  /\ decoder' = decoder
    /\ running' = FALSE
    /\ exception' = None
    /\ UNCHANGED <<inputs, stop_req, proc_left, pipe, pc, locals, exit_via,
                   raised, queue, history>>

\* mutant: the thread can be started again once run() has returned
StartAgain ==
    /\ ctor = "ok"
    /\ pc \in {"unstarted", "done"}
    /\ pc' = "started"
    /\ UNCHANGED <<inputs, owner, stop_req, process, running, exception,
                   locals, exit_via, raised, queue, history>>

\* threading.Thread.start() on the instance
Start ==
    /\ ctor = "ok"
    /\ pc = "unstarted"
    /\ pc' = "started"
    /\ UNCHANGED <<inputs, owner, stop_req, process, running, exception,
                   locals, exit_via, raised, queue, history>>

\* whether the thread is started and its loop has not been left
InLoop == pc \in {"started", "check", "read", "put"}

\* mutant: stop() also terminates the external process
StopKills ==
    /\ ctor = "ok"
    /\ running' = FALSE
    /\ decoder' = IF decoder = "running" THEN "exited" ELSE decoder
    /\ stop_req' = IF pc \in {"started", "check", "read", "put"} THEN "live"
                   ELSE IF stop_req # "none" THEN stop_req
                   ELSE IF pc = "unstarted" THEN "early"
                   ELSE "late"
    /\ UNCHANGED <<inputs, owner, proc_left, pipe, pc, exception, locals,
                   exit_via, raised, queue, history>>

\* stop(): self.running = False
Stop ==
    /\ ctor = "ok"
    /\ running' = FALSE
    /\ stop_req' = IF stop_req = "live" THEN "live"
                   ELSE IF InLoop THEN "live"
                   ELSE IF stop_req # "none" THEN stop_req
                   ELSE IF pc = "unstarted" THEN "early"
                   ELSE "late"
    /\ UNCHANGED <<inputs, owner, process, pc, exception, locals, exit_via,
                   raised, queue, history>>

(***************************************************************************)
(* The external process: it writes its frames to the pipe as far as the     *)
(* pipe has room, and exits (closing the pipe) once all is written.         *)
(***************************************************************************)
ProcWrite ==
    /\ decoder = "running"
    /\ proc_left > 0
    /\ pipe < PipeCap
    /\ LET k == Min(proc_left, PipeCap - pipe)
       IN /\ pipe' = pipe + k
          /\ proc_left' = proc_left - k
    /\ UNCHANGED <<inputs, owner, stop_req, decoder, pc, running, exception,
                   locals, exit_via, raised, queue, history>>

ProcExit ==
    /\ decoder = "running"
    /\ proc_left = 0
    /\ decoder' = "exited"
    /\ UNCHANGED <<inputs, owner, stop_req, proc_left, pipe, pc, running,
                   exception, locals, exit_via, raised, queue, history>>

(***************************************************************************)
(* run(), on the decoder thread.                                           *)
(***************************************************************************)
\* self.running = True; frame_index = 0; previous_image = None
RunBegin ==
    /\ pc = "started"
    /\ running' = TRUE
    /\ frame_index' = 0
    /\ previous_image' = NoImage
    /\ pc' = "check"
    /\ UNCHANGED <<inputs, owner, stop_req, process, exception, buffer, image,
                   offset, exit_via, raised, queue, history>>

\* while self.running: enter the body and call read, or leave the loop
LoopCheck ==
    /\ pc = "check"
    /\ IF running
       THEN /\ pc' = "read"
            /\ buffer' = [start |-> offset, len |-> 0]
            /\ reads_after_stop' =
                   IF stop_req = "live" THEN reads_after_stop + 1
                   ELSE reads_after_stop
            /\ exit_via' = exit_via
       ELSE /\ pc' = "wait"
            /\ exit_via' = "stopped"
            /\ UNCHANGED <<buffer, reads_after_stop>>
    /\ UNCHANGED <<inputs, owner, stop_req, process, running, exception,
                   frame_index, previous_image, image, offset, raised, queue,
                   reads, puts_after_stop>>

\* self.decoder.stdout.read(n), in progress: the buffered reader takes what
\* the pipe holds, up to the bytes still missing
ReadChunk ==
    /\ pc = "read"
    /\ buffer.len < frame_size
    /\ pipe > 0
    /\ LET k == Min(pipe, frame_size - buffer.len)
       IN /\ buffer' = [buffer EXCEPT !.len = @ + k]
          /\ pipe' = pipe - k
          /\ offset' = offset + k
    /\ UNCHANGED <<inputs, owner, stop_req, decoder, proc_left, pc, running,
                   exception, frame_index, previous_image, image, exit_via,
                   raised, queue, history>>

\* read returns once it has n bytes, or at end of file with what it has
ReadDone ==
    \/ buffer.len = frame_size
    \/ decoder # "running" /\ pipe = 0

\* mutant: the except ValueError clause continues the loop instead of
\* breaking out of it
BreakUnlessValueError(via, exc) ==
    /\ pc' = IF exc = "ValueError" THEN "check" ELSE "wait"
    /\ exit_via' = IF exc = "ValueError" THEN exit_via ELSE via
    /\ raised' = exc
    /\ exception' = IF exc = None THEN exception ELSE Captured(exc, exception)

\* leave the loop by break, from the body or from an except clause
Break(via, exc) ==
    /\ pc' = "wait"
    /\ exit_via' = via
    /\ raised' = exc
    /\ exception' = IF exc = None THEN exception ELSE Captured(exc, exception)

\* read returns; the body handles the buffer up to the call of put
ReadReturn ==
    /\ pc = "read"
    /\ ReadDone
    /\ reads' = Append(reads, buffer.len)
    /\ IF IsDepleted(buffer)
       THEN /\ Break("depleted", None)
            /\ UNCHANGED <<frame_index, previous_image, image>>
       ELSE IF FrombytesRaises(input_width, input_height, buffer)
       THEN /\ Break("failed", "ValueError")
            /\ UNCHANGED <<frame_index, previous_image, image>>
       ELSE IF previous_image # NoImage
       THEN /\ image' = Frombytes(input_width, input_height, buffer)
            /\ pc' = "put"
            /\ UNCHANGED <<frame_index, previous_image, exception, exit_via,
                           raised>>
       ELSE /\ image' = Frombytes(input_width, input_height, buffer)
            /\ previous_image' = image'
            /\ frame_index' = frame_index + 1
            /\ pc' = "check"
            /\ UNCHANGED <<exception, exit_via, raised>>
    /\ UNCHANGED <<inputs, owner, stop_req, process, running, buffer, offset,
                   queue, reads_after_stop, puts_after_stop>>

\* read raises an I/O error
ReadFault ==
    /\ pc = "read"
    /\ Break("failed", "OSError")
    /\ UNCHANGED <<inputs, owner, stop_req, process, running, locals, queue,
                   history>>

\* mutant: the item is put only if the running flag is still set
PutUnlessStopped ==
    /\ pc = "put"
    /\ ~running \/ ~Full(processing_queue, maxsize)
    /\ LET item == WorkItem(frame_index, previous_image, image,
                            processing_settings)
       IN IF running
          THEN /\ processing_queue' = Append(processing_queue, item)
               /\ enqueued' = Append(enqueued, item)
               /\ puts_after_stop' =
                      IF stop_req = "live" THEN puts_after_stop + 1
                      ELSE puts_after_stop
          ELSE UNCHANGED <<processing_queue, enqueued, puts_after_stop>>
    /\ previous_image' = image
    /\ frame_index' = frame_index + 1
    /\ pc' = "check"
    /\ UNCHANGED <<inputs, owner, stop_req, process, running, exception,
                   buffer, image, offset, exit_via, raised, dequeued, reads,
                   reads_after_stop>>

\* self.processing_queue.put(...) returns; previous_image = image;
\* frame_index += 1
Put ==
    /\ pc = "put"
    /\ ~Full(processing_queue, maxsize)
    /\ LET item == WorkItem(frame_index, previous_image, image,
                            processing_settings)
       IN /\ processing_queue' = Append(processing_queue, item)
          /\ enqueued' = Append(enqueued, item)
    /\ previous_image' = image
    /\ frame_index' = frame_index + 1
    /\ puts_after_stop' =
           IF stop_req = "live" THEN puts_after_stop + 1 ELSE puts_after_stop
    /\ pc' = "check"
    /\ UNCHANGED <<inputs, owner, stop_req, process, running, exception,
                   buffer, image, offset, exit_via, raised, dequeued, reads,
                   reads_after_stop>>

\* put raises (queue.ShutDown once the queue has been shut down)
PutFault ==
    /\ pc = "put"
    /\ Break("failed", "ShutDown")
    /\ UNCHANGED <<inputs, owner, stop_req, process, running, locals, queue,
                   history>>

\* mutant: the thread polls the process instead of waiting for it
WaitPolls ==
    /\ pc = "wait"
    /\ decoder' = IF decoder = "exited" THEN "reaped" ELSE decoder
    /\ pc' = "finish"
    /\ UNCHANGED <<inputs, owner, stop_req, proc_left, pipe, running,
                   exception, locals, exit_via, raised, queue, history>>

\* self.decoder.wait() returns once the process has exited
Wait ==
    /\ pc = "wait"
    /\ decoder = "exited"
    /\ decoder' = "reaped"
    /\ pc' = "finish"
    /\ UNCHANGED <<inputs, owner, stop_req, proc_left, pipe, running,
                   exception, locals, exit_via, raised, queue, history>>

\* mutant: run() returns without clearing the running flag
FinishKeepsFlag ==
    /\ pc = "finish"
    /\ pc' = "done"
    /\ UNCHANGED <<inputs, owner, stop_req, process, running, exception,
                   locals, exit_via, raised, queue, history>>

\* mutant: run() resets self.exception on its way out
FinishClearsException ==
    /\ pc = "finish"
    /\ running' = FALSE
    /\ exception' = None
    /\ pc' = "done"
    /\ UNCHANGED <<inputs, owner, stop_req, process, locals, exit_via, raised,
                   queue, history>>

\* self.running = False; return super().run()
Finish ==
    /\ pc = "finish"
    /\ running' = FALSE
    /\ pc' = "done"
    /\ UNCHANGED <<inputs, owner, stop_req, process, exception, locals,
                   exit_via, raised, queue, history>>

(***************************************************************************)
(* The consumer of the shared queue.                                       *)
(***************************************************************************)
Get ==
    /\ processing_queue # <<>>
    /\ dequeued' = Append(dequeued, Head(processing_queue))
    /\ processing_queue' = Tail(processing_queue)
    /\ UNCHANGED <<inputs, owner, stop_req, process, pc, running, exception,
                   locals, exit_via, raised, enqueued, history>>

Thread ==
    \/ RunBegin
    \/ LoopCheck
    \/ ReadChunk
    \/ ReadReturn
    \/ ReadFault
    \/ Put
    \/ PutFault
    \/ Wait
    \/ Finish

Next ==
    \/ Construct
    \/ Start
    \/ Stop
    \/ ProcWrite
    \/ ProcExit
    \/ Thread
    \/ Get

Spec == Init /\ [][Next]_vars

\* the decoder thread and the external process are scheduled; faults are
\* events of the environment and need not happen
FairSpec ==
    /\ Spec
    /\ WF_vars(RunBegin \/ LoopCheck \/ ReadChunk \/ ReadReturn \/ Put
               \/ Wait \/ Finish)
    /\ WF_vars(ProcWrite \/ ProcExit)
    /\ WF_vars(Get)

TypeOK ==
    /\ pc \in {"unstarted", "started", "check", "read", "put", "wait",
               "finish", "done"}
    /\ running \in BOOLEAN
    /\ exception \in {None, "OSError", "ShutDown", "ValueError"}
    /\ decoder \in {"none", "running", "exited", "reaped"}
    /\ pipe \in 0..PipeCap
    /\ buffer.len \in 0..frame_size

(***************************************************************************)
(* The lifecycle state of the design, read off the thread's position.      *)
(***************************************************************************)
State ==
    CASE pc \in {"unstarted", "started"} -> "Created"
      [] pc \in {"check", "read", "put"} -> "Running"
      [] pc = "wait" /\ exit_via = "depleted" -> "Depleted"
      [] pc = "wait" /\ exit_via = "stopped" -> "Stopped"
      [] pc = "wait" /\ exit_via = "failed" -> "Failed"
      [] pc \in {"finish", "done"} -> "Exited"

LoopLeft == pc \in {"wait", "finish", "done"}

\* full frames and trailing bytes of the stream
NFrames == stream_len \div frame_size
TrailingBytes == stream_len % frame_size

\* frame k of the stream, as an image
FrameAt(k) ==
    [size |-> <<input_width, input_height>>,
     data |-> [start |-> k * frame_size, len |-> frame_size]]

\* the work items of a stream of n full frames
ExpectedItems(n) ==
    IF n <= 1 THEN <<>>
    ELSE [k \in 1..(n - 1) |->
             [index |-> k, pair |-> <<FrameAt(k - 1), FrameAt(k)>>,
              settings |-> processing_settings]]

LastRead == reads[Len(reads)]
ShortRead == reads # <<>> /\ LastRead \in 1..(frame_size - 1)
EmptyRead == reads # <<>> /\ LastRead = 0
FullReads == Cardinality({i \in DOMAIN reads : reads[i] = frame_size})

(***************************************************************************)
(* Claims.                                                                 *)
(***************************************************************************)

\* C1: for a stream of exactly N full frames, with no stop request and no
\* fault raised, once the loop has been left run() has enqueued exactly
\* max(N-1, 0) items, with indices 1..N-1 in order, item k carrying
\* (frame k-1, frame k).
C1_PairsOfFullStream ==
    (LoopLeft /\ TrailingBytes = 0 /\ stop_req = "none" /\ raised = None)
        => enqueued = ExpectedItems(NFrames)

C1_Witness ==
    /\ pc = "done"
    /\ TrailingBytes = 0
    /\ stop_req = "none"
    /\ raised = None
    /\ NFrames >= 3
    /\ Len(enqueued) = NFrames - 1

\* C2: when the stream ends mid-frame, after run() has returned the loop has
\* ended in Failed and self.exception holds the insufficient-frame-data
\* error (the ValueError of Image.frombytes).
C2_ShortReadCaptured ==
    (pc = "done" /\ ShortRead)
        => (exit_via = "failed" /\ exception = "ValueError")

\* C3: after a stop() called once the thread has been started and before the
\* loop has been left, at most one further item is put and no further read
\* is begun.
C3_StopBoundsWork ==
    stop_req = "live" => (puts_after_stop <= 1 /\ reads_after_stop = 0)

\* C4: under fairness of the thread and of the process, every terminal
\* pre-state (Depleted, Stopped, Failed) leads to Exited.
C4_TerminalLeadsToExited ==
    (State \in {"Depleted", "Stopped", "Failed"}) ~> (State = "Exited")

\* C5: every frame of every work item put on the queue, and the retained
\* previous frame, was built from a read of exactly width*height*3 bytes; a
\* short read adds no item.
C5_NoPartialFrame ==
    /\ \A i \in DOMAIN enqueued :
          /\ enqueued[i].pair[1].data.len = 3 * input_width * input_height
          /\ enqueued[i].pair[2].data.len = 3 * input_width * input_height
    /\ previous_image # NoImage
          => previous_image.data.len = 3 * input_width * input_height
    /\ Len(enqueued) <= (IF FullReads = 0 THEN 0 ELSE FullReads - 1)

C5_Witness ==
    /\ pc = "done"
    /\ ShortRead
    /\ Len(enqueued) >= 2

\* C6: a read that returns zero bytes ends the loop in Depleted; no error is
\* stored then or later, and that read adds no work item.
C6_EmptyReadDepletes ==
    EmptyRead =>
        /\ TrailingBytes = 0
        /\ LoopLeft
        /\ exit_via = "depleted"
        /\ exception = None
        /\ Len(enqueued) = (IF FullReads = 0 THEN 0 ELSE FullReads - 1)

C6_Witness ==
    /\ pc = "done"
    /\ EmptyRead
    /\ exception = None
    /\ Len(enqueued) >= 1

\* C7: after run() has returned, every failure raised in the loop body is
\* stored in self.exception.
C7_FailureCaptured ==
    (pc = "done" /\ raised # None) => exception = raised

\* C8: the queue never holds more than maxsize items, and while the thread is
\* in put on a full queue, no step completes the put or reads from the pipe.
C8_Backpressure ==
    /\ [](maxsize > 0 => Len(processing_queue) <= maxsize)
    /\ [][(pc = "put" /\ maxsize > 0 /\ Len(processing_queue) >= maxsize)
             => (/\ enqueued' = enqueued
                 /\ offset' = offset
                 /\ reads' = reads
                 /\ pc' \in {"put", "wait"})]_vars

C8_Witness ==
    /\ pc = "put"
    /\ maxsize > 0
    /\ Len(processing_queue) = maxsize

\* C9: when the process cannot be launched, the constructor raises to its
\* caller: there is no instance, the thread is never started, nothing is put
\* on the queue and self.exception does not carry the failure.
C9_LaunchFailureSynchronous ==
    (ctor # "pending" /\ ~binary_ok) =>
        /\ ctor = "FileNotFoundError"
        /\ pc = "unstarted"
        /\ State = "Created"
        /\ ~running
        /\ decoder = "none"
        /\ enqueued = <<>>
        /\ exception = None

C9_Witness ==
    /\ ~binary_ok
    /\ ctor = "FileNotFoundError"

\* the claimed mapping, row by row, with info for every host level not listed
ClaimedRows ==
    { <<L_trace, L_trace>>, <<L_debug, L_debug>>, <<L_info, L_info>>,
      <<L_success, L_info>>, <<L_warning, L_warning>>, <<L_error, L_error>>,
      <<L_critical, L_fatal>> }

ClaimedLevel(host) ==
    IF \E r \in ClaimedRows : r[1] = host
    THEN (CHOOSE r \in ClaimedRows : r[1] = host)[2]
    ELSE L_info

\* the host level: LOGURU_LEVEL, INFO when unset, in lower case
HostLevel == Lower(EnvironGet(env_level))

\* C10: the level passed at launch is the table's level for the seven listed
\* host levels and info for every other host level.
C10_LevelTotal ==
    ctor # "pending" => loglevel = ClaimedLevel(HostLevel)

\* the i-th work item of the stream, with the caller's settings
ExpectedItem(i) ==
    [index |-> i, pair |-> <<FrameAt(i - 1), FrameAt(i)>>,
     settings |-> processing_settings]

\* C11: in every reachable state the items ever enqueued are, in order, the
\* items 1, 2, ... of the stream (index i pairing frame i-1 with frame i and
\* carrying the caller's settings); the consumer has dequeued a prefix of
\* them in that order, and the queue holds the rest in that order.
C11_EnqueuedIsOrderedPrefix ==
    /\ \A i \in DOMAIN enqueued : enqueued[i] = ExpectedItem(i)
    /\ Len(enqueued) <= (IF NFrames = 0 THEN 0 ELSE NFrames - 1)
    /\ enqueued = dequeued \o processing_queue

C11_Witness ==
    /\ stop_req = "live"
    /\ LoopLeft
    /\ Len(enqueued) = 2
    /\ Len(dequeued) = 1
    /\ processing_settings = "interpolate"

\* the position of a lifecycle state in Created -> Running -> terminal
\* pre-state -> Exited
Rank(s) ==
    CASE s = "Created" -> 0
      [] s = "Running" -> 1
      [] s \in {"Depleted", "Stopped", "Failed"} -> 2
      [] s = "Exited" -> 3

\* C12: no step moves the lifecycle backwards, a terminal pre-state is never
\* exchanged for another, and once the loop has been left no step brings the
\* instance back into the loop or sets the running flag from false to true.
C12_LifecycleForward ==
    [][/\ Rank(State') >= Rank(State)
       /\ Rank(State) = 2 => State' \in {State, "Exited"}
       /\ LoopLeft => (LoopLeft' /\ (running' => running))]_vars

C12_Witness ==
    /\ pc = "done"
    /\ exit_via = "stopped"
    /\ stop_req = "live"
    /\ ~running

\* C13: whenever the thread is past decoder.wait(), and so whenever it has
\* terminated, the external process has been reaped, whichever way the loop
\* was left.
C13_ReapedBeforeTermination ==
    pc \in {"finish", "done"} => decoder = "reaped"

C13_Witness ==
    /\ pc = "done"
    /\ exit_via = "failed"
    /\ raised = "OSError"
    /\ decoder = "reaped"

\* C14: self.exception changes only in a step of the decoder thread that
\* leaves the loop as Failed, and only from unset, so it is written at most
\* once; from the moment the loop has been left, and so after the thread has
\* exited, no step changes it.
C14_ExceptionWrittenOnce ==
    [][/\ exception' # exception
            => /\ exception = None
               /\ pc \in {"read", "put"}
               /\ pc' = "wait"
               /\ exit_via' = "failed"
       /\ LoopLeft => exception' = exception]_vars

C14_Witness ==
    /\ pc = "done"
    /\ exception = "ShutDown"
    /\ stop_req = "late"

\* C15: a call of stop(), in whatever state, leaves the external process and
\* its pipe, the queue contents, self.exception, the retained previous frame,
\* the frame index and the thread's position as they were; only the running
\* flag (and the record that stop was requested) may differ.
C15_StopOnlyClearsFlag ==
    [][(Stop \/ stop_req' # stop_req)
          => /\ ~running'
             /\ UNCHANGED <<decoder, proc_left, pipe>>
             /\ UNCHANGED <<processing_queue, enqueued, dequeued>>
             /\ UNCHANGED <<exception, previous_image, frame_index, pc>>]_vars

C15_Witness ==
    /\ stop_req = "live"
    /\ ~running
    /\ pc = "read"
    /\ decoder = "running"
    /\ processing_queue # <<>>
    /\ previous_image # NoImage
    /\ frame_index = 2

\* C16: a read that returned no bytes, or fewer bytes than one frame, is the
\* last read of the run: it is the last entry of the reads, and from its
\* return on the thread is out of the loop, where no read is issued.
C16_ShortReadIsLast ==
    /\ \A i \in DOMAIN reads : reads[i] < frame_size => i = Len(reads)
    /\ (reads # <<>> /\ LastRead < frame_size) => LoopLeft

C16_Witness ==
    /\ pc = "done"
    /\ ShortRead
    /\ Len(reads) >= 3

\* C17: the running flag is true only while the decoder thread is inside
\* run(): it is false before the thread has entered run() and false once
\* run() has returned, on every terminal path.
C17_RunningOnlyInsideRun ==
    running => pc \in {"check", "read", "put", "wait", "finish"}

C17_Witness ==
    /\ pc = "done"
    /\ exit_via = "depleted"
    /\ stop_req = "none"
    /\ ~running
    /\ Len(reads) >= 2

\* C18: once the loop has been left without a failure of put, the number of
\* items ever enqueued is max(F-1, 0), F being the number of full frames the
\* reads returned: a stop request drops no frame already read.
C18_StopDropsNoFrame ==
    (LoopLeft /\ raised # "ShutDown")
        => Len(enqueued) = (IF FullReads = 0 THEN 0 ELSE FullReads - 1)

C18_Witness ==
    /\ pc = "done"
    /\ exit_via = "stopped"
    /\ stop_req = "live"
    /\ puts_after_stop = 1
    /\ FullReads >= 2
    /\ Len(enqueued) = FullReads - 1

====
